---------------------------- MODULE Spec2Model ----------------------------
(***************************************************************************)
(* A model of main.py of the Glow AI Agent: the content generator's text   *)
(* functions (title, meta description, labels), the trend analyzer, the    *)
(* section assembler and the Blogger publisher.                            *)
(*                                                                         *)
(* A Python str is modelled as a sequence of one-character strings, so     *)
(* that len(), slicing, split(), lower(), title() and the `in` substring   *)
(* test are computed character by character as Python computes them.       *)
(* The alphabet is ASCII letters, digits, the space and punctuation; for   *)
(* these characters lower() and title() keep the length of the string.     *)
(***************************************************************************)
EXTENDS Integers, Sequences, FiniteSets, TLC

VARIABLES
    keyword,    \* the topic string handed to the ContentGenerator methods
    title,      \* last value returned by generate_seo_title   (<<>>: not called yet)
    meta,       \* last value returned by generate_meta_description (<<>>: not called yet)
    labels,     \* last value returned by generate_labels      (<<>>: not called yet)
    month,      \* datetime.now().month
    pytrends,   \* TrendAnalyzer.pytrends: absent (None), or how its calls behave
    df,         \* the DataFrame interest_over_time() returns when it returns
    google_ret, \* outcome of the last get_google_trends call
    topics_ret, \* outcome of the last get_trending_topics call
    products,   \* the product list handed to create_structured_content
    images,     \* the image list handed to create_structured_content
    html_ret,   \* outcome of the last create_structured_content call
    google_apis,  \* OPTIONAL_IMPORTS["google_apis"]
    blog_id,      \* Config.BLOGGER_BLOG_ID
    endpoint_log, \* every insert request the Blogger endpoint received, with its answer
    publish_log,  \* every publish invocation, with its outcome
    count,        \* the count handed to find_relevant_products
    found_ret,    \* outcome of the last find_relevant_products call
    pexels_key,   \* Config.PEXELS_API_KEY is set
    cache,        \* ImageManager.cache of the current ImageManager
    pexels_log,   \* every search request sent to the Pexels endpoint
    search_log,   \* every search_pexels_images call, with its outcome
    publish_toggle, \* the "Publish to Blogger" toggle of the UI
    generate_btn, \* the "Generate Blog Post" button was pressed for this run of the script
    seed,         \* the state of the `random` generator
    now_year,     \* datetime.now().year
    generate_ret  \* what the last generate action did: its calls and UI outputs, in order

contentVars == <<keyword, title, meta, labels>>
trendVars == <<month, pytrends, df, google_ret, topics_ret>>
assemblyVars == <<products, images, html_ret>>
publishVars == <<google_apis, blog_id, endpoint_log, publish_log>>
productVars == <<count, found_ret>>
imageVars == <<pexels_key, cache, pexels_log, search_log>>
appVars == <<publish_toggle, generate_btn, seed, now_year, generate_ret>>
vars == <<contentVars, trendVars, assemblyVars, publishVars, productVars, imageVars, appVars>>

\* The outcome of a call: not made yet, returned a value, or raised.
NotCalled == [called |-> FALSE]
Return(v) == [called |-> TRUE, raised |-> FALSE, value |-> v]
Raise == [called |-> TRUE, raised |-> TRUE]

\* Each specification below exercises one component; the variables of the
\* other components keep these values.

\* the content functions are not used
IdleContent ==
    /\ keyword = <<>>
    /\ title = <<>>
    /\ meta = <<>>
    /\ labels = <<>>

\* the trend analyzer is not used
IdleTrends ==
    /\ month = 1
    /\ pytrends = "absent"
    /\ df = [kind |-> "None"]
    /\ google_ret = NotCalled
    /\ topics_ret = NotCalled

\* the section assembler is not used
IdleAssembly ==
    /\ products = <<>>
    /\ images = <<>>
    /\ html_ret = NotCalled

\* the publisher is not used
IdlePublish ==
    /\ google_apis = FALSE
    /\ blog_id = ""
    /\ endpoint_log = <<>>
    /\ publish_log = <<>>

\* the product database is not used
IdleProducts ==
    /\ count = 0
    /\ found_ret = NotCalled

\* the image manager is not used
IdleImages ==
    /\ pexels_key = FALSE
    /\ cache = <<>>
    /\ pexels_log = <<>>
    /\ search_log = <<>>

\* the UI is not used
IdleApp ==
    /\ publish_toggle = FALSE
    /\ generate_btn = FALSE
    /\ seed = 0
    /\ now_year = 2026
    /\ generate_ret = NotCalled

-----------------------------------------------------------------------------
(* Python str and list primitives *)

LowerLetters == <<"a","b","c","d","e","f","g","h","i","j","k","l","m","n","o","p","q","r","s","t","u","v","w","x","y","z">>
UpperLetters == <<"A","B","C","D","E","F","G","H","I","J","K","L","M","N","O","P","Q","R","S","T","U","V","W","X","Y","Z">>
Digits == <<"0","1","2","3","4","5","6","7","8","9">>

Range(s) == {s[i] : i \in DOMAIN s}

IsUpper(c) == \E i \in DOMAIN UpperLetters : UpperLetters[i] = c
IsLower(c) == \E i \in DOMAIN LowerLetters : LowerLetters[i] = c
IsCased(c) == IsUpper(c) \/ IsLower(c)

\* str.lower() / str.upper() of one character
LowerChar(c) ==
    IF IsUpper(c) THEN LowerLetters[CHOOSE i \in DOMAIN UpperLetters : UpperLetters[i] = c]
    ELSE c
UpperChar(c) ==
    IF IsLower(c) THEN UpperLetters[CHOOSE i \in DOMAIN LowerLetters : LowerLetters[i] = c]
    ELSE c

\* str.lower()
Lower(s) == [i \in DOMAIN s |-> LowerChar(s[i])]

\* str.title(): a cased character is upper-cased when the character before it
\* is not cased (or there is none) and lower-cased otherwise.
Title(s) ==
    [i \in DOMAIN s |->
        IF i > 1 /\ IsCased(s[i - 1]) THEN LowerChar(s[i]) ELSE UpperChar(s[i])]

\* `t in s` for strings: t occurs in s as a contiguous substring
Contains(s, t) ==
    \E i \in 1..(Len(s) - Len(t) + 1) : SubSeq(s, i, i + Len(t) - 1) = t

\* s[:n]
Prefix(s, n) == SubSeq(s, 1, IF n < Len(s) THEN n ELSE Len(s))

\* str.split(): the maximal runs of non-space characters, in order
RECURSIVE SplitFrom(_, _, _)
SplitFrom(s, i, word) ==
    IF i > Len(s) THEN (IF word = <<>> THEN <<>> ELSE <<word>>)
    ELSE IF s[i] = " " THEN (IF word = <<>> THEN <<>> ELSE <<word>>) \o SplitFrom(s, i + 1, <<>>)
    ELSE SplitFrom(s, i + 1, Append(word, s[i]))
Split(s) == SplitFrom(s, 1, <<>>)

\* " ".join(words)
RECURSIVE Join(_)
Join(words) ==
    IF words = <<>> THEN <<>>
    ELSE IF Len(words) = 1 THEN words[1]
    ELSE words[1] \o <<" ">> \o Join(Tail(words))

\* str(n) for n >= 0
RECURSIVE IntStr(_)
IntStr(n) == IF n < 10 THEN <<Digits[n + 1]>> ELSE IntStr(n \div 10) \o <<Digits[(n % 10) + 1]>>

\* list(dict.fromkeys(s)): the first occurrence of every element, in order
RECURSIVE FromKeys(_, _)
FromKeys(s, seen) ==
    IF s = <<>> THEN <<>>
    ELSE IF Head(s) \in seen THEN FromKeys(Tail(s), seen)
    ELSE <<Head(s)>> \o FromKeys(Tail(s), seen \cup {Head(s)})

-----------------------------------------------------------------------------
(* Config *)

MIN_KEYWORD_INTEREST == 70
MAX_TITLE_LENGTH == 60
META_DESC_LENGTH == 155

-----------------------------------------------------------------------------
(* The inputs: topic strings built from a vocabulary *)

MaxWords == 3

\* short and long words, lower-case and capitalised, with and without the
\* substrings generate_labels looks for
Vocabulary ==
    { <<"s","k","i","n">>, <<"s","k","i","n","c","a","r","e">>, <<"B","e","a","u","t","y">>, <<"r","o","u","t","i","n","e">>, <<"m","y">>, <<"h","y","p","e","r","p","i","g","m","e","n","t","a","t","i","o","n">> }

WordLists == UNION {[1..n -> Vocabulary] : n \in 0..MaxWords}

\* the words joined by one space, and a string of one space alone
Topics == {Join(ws) : ws \in WordLists} \cup { <<" ">> }

\* the years datetime.now().year may give
Years == {2025, 2026}

-----------------------------------------------------------------------------
(* ContentGenerator: title, meta description, labels *)

\* the seven f-string templates of generate_seo_title
TitleTemplates(kw, year) ==
    << Title(kw) \o <<":"," ","C","o","m","p","l","e","t","e"," ","G","u","i","d","e"," ","f","o","r"," ">> \o IntStr(year),
       <<"T","h","e"," ","U","l","t","i","m","a","t","e"," ">> \o Title(kw) \o <<" ","G","u","i","d","e"," ","T","h","a","t"," ","A","c","t","u","a","l","l","y"," ","W","o","r","k","s">>,
       Title(kw) \o <<":"," ","S","t","e","p","-","b","y","-","S","t","e","p"," ","T","u","t","o","r","i","a","l"," ","+"," ","T","i","p","s">>,
       <<"H","o","w"," ","t","o"," ","M","a","s","t","e","r"," ">> \o Title(kw) \o <<" ","L","i","k","e"," ","a"," ","P","r","o">>,
       <<"E","v","e","r","y","t","h","i","n","g"," ","Y","o","u"," ","N","e","e","d"," ","t","o"," ","K","n","o","w"," ","A","b","o","u","t"," ">> \o Title(kw),
       Title(kw) \o <<":"," ","B","e","g","i","n","n","e","r","'","s"," ","G","u","i","d","e"," ","+"," ","P","r","o","d","u","c","t"," ","R","e","c","s">>,
       <<"T","h","e"," ","B","e","s","t"," ">> \o Title(kw) \o <<" ","T","i","p","s"," ","f","o","r"," ","G","l","o","w","i","n","g"," ","S","k","i","n">> >>

\* the three shorter templates chosen from when the first choice is too long
ShortTitleTemplates(kw) ==
    << Title(kw) \o <<":"," ","C","o","m","p","l","e","t","e"," ","G","u","i","d","e">>,
       <<"U","l","t","i","m","a","t","e"," ">> \o Title(kw) \o <<" ","G","u","i","d","e">>,
       Title(kw) \o <<":"," ","T","i","p","s"," ","T","h","a","t"," ","W","o","r","k">> >>

\* the `if len(title) > MAX_TITLE_LENGTH` of generate_seo_title: t is the
\* first choice, s the choice among the shorter templates
PickTitle(t, s) == IF Len(t) > MAX_TITLE_LENGTH THEN s ELSE t

\* the title returned when the first random.choice takes templates[i] and
\* the second, if it is made, the j-th of the shorter templates
SeoTitle(kw, year, i, j) ==
    PickTitle(TitleTemplates(kw, year)[i], ShortTitleTemplates(kw)[j])

\* mutant: a title over the limit is cut to the limit instead of re-selected
generate_seo_title_Truncate(kw, year) ==
    LET long == TitleTemplates(kw, year)
    IN  { Prefix(long[i], MAX_TITLE_LENGTH) : i \in DOMAIN long }

\* the set of strings generate_seo_title may return: each random.choice is a
\* nondeterministic choice
generate_seo_title(kw, year) ==
    LET long == TitleTemplates(kw, year)
        short == ShortTitleTemplates(kw)
    IN  { PickTitle(long[i], short[j]) : i \in DOMAIN long, j \in DOMAIN short }

MetaTemplates(kw) ==
    << <<"D","i","s","c","o","v","e","r"," ","t","h","e"," ","b","e","s","t"," ">> \o kw \o <<" ","t","i","p","s"," ","a","n","d"," ","p","r","o","d","u","c","t","s","."," ","O","u","r"," ","c","o","m","p","l","e","t","e"," ","g","u","i","d","e"," ","c","o","v","e","r","s"," ","e","v","e","r","y","t","h","i","n","g"," ","f","o","r"," ","g","l","o","w","i","n","g",","," ","h","e","a","l","t","h","y"," ","s","k","i","n","."," ","E","x","p","e","r","t"," ","a","d","v","i","c","e"," ","+"," ","p","r","o","d","u","c","t"," ","r","e","c","o","m","m","e","n","d","a","t","i","o","n","s"," ","i","n","s","i","d","e","!">>,
       <<"L","e","a","r","n"," ">> \o kw \o <<" ","l","i","k","e"," ","a"," ","p","r","o"," ","w","i","t","h"," ","o","u","r"," ","s","t","e","p","-","b","y","-","s","t","e","p"," ","g","u","i","d","e","."," ","I","n","c","l","u","d","e","s"," ","p","r","o","d","u","c","t"," ","r","e","c","o","m","m","e","n","d","a","t","i","o","n","s",","," ","t","i","p","s",","," ","a","n","d"," ","e","v","e","r","y","t","h","i","n","g"," ","y","o","u"," ","n","e","e","d"," ","f","o","r"," ","a","m","a","z","i","n","g"," ","r","e","s","u","l","t","s",".">>,
       <<"M","a","s","t","e","r"," ">> \o kw \o <<" ","w","i","t","h"," ","o","u","r"," ","c","o","m","p","r","e","h","e","n","s","i","v","e"," ","g","u","i","d","e","."," ","F","r","o","m"," ","b","e","g","i","n","n","e","r"," ","t","i","p","s"," ","t","o"," ","e","x","p","e","r","t"," ","t","e","c","h","n","i","q","u","e","s",","," ","p","l","u","s"," ","t","h","e"," ","b","e","s","t"," ","p","r","o","d","u","c","t","s"," ","t","h","a","t"," ","a","c","t","u","a","l","l","y"," ","w","o","r","k",".">> >>

MetaFallback(kw) ==
    <<"C","o","m","p","l","e","t","e"," ">> \o kw \o <<" ","g","u","i","d","e"," ","w","i","t","h"," ","e","x","p","e","r","t"," ","t","i","p","s",","," ","p","r","o","d","u","c","t"," ","r","e","c","o","m","m","e","n","d","a","t","i","o","n","s",","," ","a","n","d"," ","s","t","e","p","-","b","y","-","s","t","e","p"," ","i","n","s","t","r","u","c","t","i","o","n","s"," ","f","o","r"," ","g","l","o","w","i","n","g",","," ","h","e","a","l","t","h","y"," ","s","k","i","n",".">>

\* the text kept before the final slice when random.choice takes templates[i]
MetaPick(kw, i) ==
    LET m == MetaTemplates(kw)[i] IN
    IF Len(m) > META_DESC_LENGTH THEN MetaFallback(kw) ELSE m

\* the text chosen before the final slice
MetaChoice(kw) == { MetaPick(kw, i) : i \in DOMAIN MetaTemplates(kw) }

\* mutant: the final slice meta[:META_DESC_LENGTH] left out
generate_meta_description_NoSlice(kw) == MetaChoice(kw)

generate_meta_description(kw) ==
    { Prefix(m, META_DESC_LENGTH) : m \in MetaChoice(kw) }

\* the description returned when random.choice takes templates[i]
MetaDescription(kw, i) == Prefix(MetaPick(kw, i), META_DESC_LENGTH)

BaseLabels == << <<"b","e","a","u","t","y">>, <<"s","k","i","n","c","a","r","e">>, <<"b","e","a","u","t","y"," ","t","i","p","s">>, <<"g","l","o","w"," ","w","i","t","h"," ","h","e","l","e","n">> >>

\* [w.lower() for w in keyword.split() if len(w) > 2]
RECURSIVE LowerLongWords(_)
LowerLongWords(ws) ==
    IF ws = <<>> THEN <<>>
    ELSE (IF Len(Head(ws)) > 2 THEN <<Lower(Head(ws))>> ELSE <<>>) \o LowerLongWords(Tail(ws))
LabelParts(kw) == LowerLongWords(Split(kw))

AnyIn(terms, s) == \E t \in terms : Contains(s, t)
LabelContextual(kw) ==
    (IF AnyIn({ <<"s","k","i","n","c","a","r","e">>, <<"s","k","i","n">>, <<"f","a","c","e">> }, Lower(kw))
        THEN << <<"s","k","i","n","c","a","r","e"," ","r","o","u","t","i","n","e">>, <<"h","e","a","l","t","h","y"," ","s","k","i","n">> >> ELSE <<>>)
    \o (IF AnyIn({ <<"m","a","k","e","u","p">>, <<"b","e","a","u","t","y">>, <<"c","o","s","m","e","t","i","c">> }, Lower(kw))
        THEN << <<"m","a","k","e","u","p"," ","t","i","p","s">>, <<"b","e","a","u","t","y"," ","r","o","u","t","i","n","e">> >> ELSE <<>>)
    \o (IF Contains(Lower(kw), <<"r","o","u","t","i","n","e">>) THEN << <<"d","a","i","l","y"," ","r","o","u","t","i","n","e">> >> ELSE <<>>)

\* base + parts + contextual
LabelCandidates(kw) == BaseLabels \o LabelParts(kw) \o LabelContextual(kw)

MaxLabels == 8

\* mutant: the dict.fromkeys deduplication left out
generate_labels_NoDedup(kw) == Prefix(LabelCandidates(kw), MaxLabels)

generate_labels(kw) == Prefix(FromKeys(LabelCandidates(kw), {}), MaxLabels)

-----------------------------------------------------------------------------
(* The content functions as a state machine *)

InitContent ==
    /\ IdleProducts
    /\ IdleImages
    /\ IdleApp
    /\ IdleTrends
    /\ IdleAssembly
    /\ IdlePublish
    /\ keyword \in Topics
    /\ title = <<>>
    /\ meta = <<>>
    /\ labels = <<>>

CallGenerateSeoTitle ==
    /\ \E year \in Years : title' \in generate_seo_title(keyword, year)
    /\ UNCHANGED <<keyword, meta, labels, trendVars, assemblyVars, publishVars, productVars, imageVars, appVars>>

CallGenerateMetaDescription ==
    /\ meta' \in generate_meta_description(keyword)
    /\ UNCHANGED <<keyword, title, labels, trendVars, assemblyVars, publishVars, productVars, imageVars, appVars>>

CallGenerateLabels ==
    /\ labels' = generate_labels(keyword)
    /\ UNCHANGED <<keyword, title, meta, trendVars, assemblyVars, publishVars, productVars, imageVars, appVars>>

\* One specification per function: the three functions share no state, and
\* each specification applies one of them to every topic.
SpecTitle == InitContent /\ [][CallGenerateSeoTitle]_vars
SpecMeta == InitContent /\ [][CallGenerateMetaDescription]_vars
SpecLabels == InitContent /\ [][CallGenerateLabels]_vars

-----------------------------------------------------------------------------
(* TrendAnalyzer *)

beauty_keywords ==
    << <<"s","k","i","n","c","a","r","e"," ","r","o","u","t","i","n","e">>, <<"m","a","k","e","u","p"," ","t","r","e","n","d","s">>, <<"b","e","a","u","t","y"," ","t","i","p","s">>, <<"a","n","t","i"," ","a","g","i","n","g">>,
       <<"a","c","n","e"," ","t","r","e","a","t","m","e","n","t">>, <<"h","a","i","r"," ","c","a","r","e">>, <<"n","a","i","l"," ","a","r","t">>, <<"f","a","s","h","i","o","n"," ","t","r","e","n","d","s">>,
       <<"s","k","i","n","c","a","r","e"," ","i","n","g","r","e","d","i","e","n","t","s">>, <<"m","a","k","e","u","p"," ","t","u","t","o","r","i","a","l">>, <<"b","e","a","u","t","y"," ","h","a","c","k","s">>,
       <<"n","a","t","u","r","a","l"," ","s","k","i","n","c","a","r","e">>, <<"k","o","r","e","a","n"," ","s","k","i","n","c","a","r","e">>, <<"r","e","t","i","n","o","l">>, <<"n","i","a","c","i","n","a","m","i","d","e">>,
       <<"v","i","t","a","m","i","n"," ","c"," ","s","e","r","u","m">>, <<"h","y","a","l","u","r","o","n","i","c"," ","a","c","i","d">>, <<"f","a","c","e"," ","m","a","s","k","s">>, <<"s","u","n","s","c","r","e","e","n">>,
       <<"g","l","a","s","s"," ","s","k","i","n">>, <<"s","l","u","g"," ","l","i","f","e">>, <<"s","k","i","n"," ","c","y","c","l","i","n","g">>, <<"d","o","p","a","m","i","n","e"," ","m","a","k","e","u","p">>,
       <<"c","l","e","a","n"," ","b","e","a","u","t","y">>, <<"s","u","s","t","a","i","n","a","b","l","e"," ","f","a","s","h","i","o","n">>, <<"c","r","u","e","l","t","y"," ","f","r","e","e">> >>

\* beauty_keywords[:5], the only keywords get_trending_topics asks about
QueriedKeywords == Prefix(beauty_keywords, 5)

\* How the pytrends object behaves: absent (the import or TrendReq() failed,
\* self.pytrends is None), answering, or raising in one of its two calls.
PytrendsModes == {"absent", "ok", "build_payload_raises", "interest_over_time_raises"}

\* One column of the DataFrame: its mean (nan for a column of missing values)
\* and whether its last value is above its first.
ColumnSummaries ==
    { [nan |-> FALSE, mean |-> 69, rising |-> FALSE],
      [nan |-> FALSE, mean |-> 70, rising |-> TRUE],
      [nan |-> FALSE, mean |-> 100, rising |-> TRUE],
      [nan |-> TRUE, mean |-> 0, rising |-> FALSE] }

\* most columns a modelled DataFrame has
MaxTrendCols == 2

\* The DataFrames: None, one without rows, or one with columns for some of
\* the queried keywords.
DataFrames ==
    { [kind |-> "None"], [kind |-> "empty"] }
    \cup { [kind |-> "data", cols |-> c] :
            c \in UNION { [ks -> ColumnSummaries] :
                            ks \in { x \in SUBSET Range(QueriedKeywords) :
                                        Cardinality(x) <= MaxTrendCols } } }

\* the body of the try block of get_google_trends: the dict built, as the list
\* of its items in insertion order, or the exception raised (int() of a nan
\* mean raises ValueError)
RECURSIVE TrendItems(_, _)
TrendItems(keywords, cols) ==
    IF keywords = <<>> THEN <<>>
    ELSE (IF Head(keywords) \in DOMAIN cols
            THEN << [keyword |-> Head(keywords),
                     interest |-> cols[Head(keywords)].mean,
                     trend |-> IF cols[Head(keywords)].rising THEN "rising" ELSE "falling"] >>
            ELSE <<>>)
         \o TrendItems(Tail(keywords), cols)

GoogleTrendsTry(keywords, pt, frame) ==
    IF pt \in {"build_payload_raises", "interest_over_time_raises"} THEN Raise
    ELSE IF frame.kind = "data"
        THEN IF \E k \in Range(keywords) \cap DOMAIN frame.cols : frame.cols[k].nan
                THEN Raise
                ELSE Return(TrendItems(keywords, frame.cols))
        ELSE Return(<<>>)

\* mutant: the except clause left out, the exception propagates
get_google_trends_NoExcept(keywords, pt, frame) ==
    IF pt = "absent" THEN Return(<<>>) ELSE GoogleTrendsTry(keywords, pt, frame)

get_google_trends(keywords, pt, frame) ==
    IF pt = "absent" THEN Return(<<>>)
    ELSE LET r == GoogleTrendsTry(keywords, pt, frame) IN
         IF r.raised THEN Return(<<>>) ELSE r

\* the seasonal table of get_pinterest_trends
Seasonal(m) ==
    CASE m = 12 -> << <<"w","i","n","t","e","r"," ","s","k","i","n","c","a","r","e">>, <<"h","o","l","i","d","a","y"," ","m","a","k","e","u","p">>, <<"p","a","r","t","y"," ","n","a","i","l","s">> >>
      [] m = 1 -> << <<"n","e","w"," ","y","e","a","r"," ","g","l","o","w"," ","u","p">>, <<"d","r","y"," ","s","k","i","n"," ","r","e","m","e","d","i","e","s">>, <<"d","e","t","o","x"," ","s","k","i","n","c","a","r","e">> >>
      [] m = 2 -> << <<"v","a","l","e","n","t","i","n","e","'","s"," ","m","a","k","e","u","p">>, <<"a","n","t","i","-","a","g","i","n","g">>, <<"s","e","l","f"," ","c","a","r","e"," ","r","o","u","t","i","n","e">> >>
      [] m = 3 -> << <<"s","p","r","i","n","g"," ","s","k","i","n","c","a","r","e">>, <<"f","r","e","s","h"," ","m","a","k","e","u","p">>, <<"a","l","l","e","r","g","y"," ","s","k","i","n"," ","c","a","r","e">> >>
      [] m = 4 -> << <<"s","p","r","i","n","g"," ","c","l","e","a","n","i","n","g"," ","s","k","i","n","c","a","r","e">>, <<"r","e","f","r","e","s","h"," ","r","o","u","t","i","n","e">> >>
      [] m = 5 -> << <<"m","o","t","h","e","r","'","s"," ","d","a","y"," ","g","i","f","t","s">>, <<"s","p","r","i","n","g"," ","t","r","e","n","d","s">>, <<"s","u","n"," ","p","r","o","t","e","c","t","i","o","n">> >>
      [] m = 6 -> << <<"s","u","m","m","e","r"," ","s","k","i","n","c","a","r","e">>, <<"w","a","t","e","r","p","r","o","o","f"," ","m","a","k","e","u","p">>, <<"w","e","d","d","i","n","g"," ","b","e","a","u","t","y">> >>
      [] m = 7 -> << <<"s","u","n"," ","c","a","r","e">>, <<"b","e","a","c","h"," ","w","a","v","e","s">>, <<"s","w","e","a","t"," ","p","r","o","o","f"," ","m","a","k","e","u","p">> >>
      [] m = 8 -> << <<"b","a","c","k"," ","t","o"," ","s","c","h","o","o","l">>, <<"q","u","i","c","k"," ","r","o","u","t","i","n","e","s">>, <<"b","u","d","g","e","t"," ","b","e","a","u","t","y">> >>
      [] m = 9 -> << <<"f","a","l","l"," ","s","k","i","n","c","a","r","e">>, <<"a","u","t","u","m","n"," ","m","a","k","e","u","p">>, <<"t","r","a","n","s","i","t","i","o","n"," ","r","o","u","t","i","n","e">> >>
      [] m = 10 -> << <<"h","a","l","l","o","w","e","e","n"," ","m","a","k","e","u","p">>, <<"f","a","l","l"," ","t","r","e","n","d","s">>, <<"c","o","z","y"," ","s","k","i","n","c","a","r","e">> >>
      [] m = 11 -> << <<"t","h","a","n","k","s","g","i","v","i","n","g"," ","p","r","e","p">>, <<"d","r","y"," ","s","k","i","n"," ","s","o","l","u","t","i","o","n","s">>, <<"h","o","l","i","d","a","y"," ","p","r","e","p">> >>
      [] OTHER -> << <<"g","e","n","e","r","a","l"," ","s","k","i","n","c","a","r","e">>, <<"m","a","k","e","u","p"," ","t","i","p","s">>, <<"b","e","a","u","t","y"," ","r","o","u","t","i","n","e">> >>

\* random.randint(75, 95) for each seasonal topic: the two ends of the range
PinterestInterests == {75, 95}

\* get_pinterest_trends, given the interest drawn for each topic
get_pinterest_trends(m, interests) ==
    [i \in DOMAIN Seasonal(m) |->
        [keyword |-> Seasonal(m)[i], source |-> "pinterest", interest |-> interests[i]]]

\* mutant: only a keyword of fewer than two words is tagged 'high'
_competition_LessThanTwo(kw) ==
    IF Len(Split(kw)) < 2 THEN "high"
    ELSE IF Contains(kw, <<"t","u","t","o","r","i","a","l">>) \/ Contains(kw, <<"g","u","i","d","e">>) THEN "medium"
    ELSE IF Len(Split(kw)) >= 4 THEN "low"
    ELSE "medium"

\* _competition: the tag derived from the number of words of the keyword
_competition(kw) ==
    IF Len(Split(kw)) <= 2 THEN "high"
    ELSE IF Contains(kw, <<"t","u","t","o","r","i","a","l">>) \/ Contains(kw, <<"g","u","i","d","e">>) THEN "medium"
    ELSE IF Len(Split(kw)) >= 4 THEN "low"
    ELSE "medium"

Evergreen ==
    << [keyword |-> <<"r","e","t","i","n","o","l"," ","f","o","r"," ","b","e","g","i","n","n","e","r","s">>, interest |-> 85, competition |-> "low", trend |-> "steady"],
       [keyword |-> <<"n","i","a","c","i","n","a","m","i","d","e"," ","b","e","n","e","f","i","t","s">>, interest |-> 78, competition |-> "medium", trend |-> "rising"],
       [keyword |-> <<"g","l","a","s","s"," ","s","k","i","n"," ","r","o","u","t","i","n","e">>, interest |-> 82, competition |-> "medium", trend |-> "rising"],
       [keyword |-> <<"a","f","f","o","r","d","a","b","l","e"," ","s","k","i","n","c","a","r","e"," ","d","u","p","e","s">>, interest |-> 88, competition |-> "low", trend |-> "steady"],
       [keyword |-> <<"k","o","r","e","a","n"," ","b","e","a","u","t","y"," ","s","e","c","r","e","t","s">>, interest |-> 79, competition |-> "medium", trend |-> "steady"] >>

\* t.get("competition"): None for a dict without the key
GetCompetition(t) == IF "competition" \in DOMAIN t THEN t.competition ELSE "None"

\* the loop over g_trends.items() of get_trending_topics
RECURSIVE GoogleTopics(_)
GoogleTopics(items) ==
    IF items = <<>> THEN <<>>
    ELSE (IF Head(items).interest >= MIN_KEYWORD_INTEREST
            THEN << [keyword |-> Head(items).keyword,
                     interest |-> Head(items).interest,
                     competition |-> _competition(Head(items).keyword),
                     trend |-> Head(items).trend,
                     source |-> "google_trends"] >>
            ELSE <<>>)
         \o GoogleTopics(Tail(items))

\* mutant: a topic without a competition tag is dropped too
PassesFilter_TagRequired(t) ==
    t.interest >= MIN_KEYWORD_INTEREST /\ GetCompetition(t) \in {"low", "medium"}

\* the condition of the list comprehension building `filtered`
PassesFilter(t) ==
    t.interest >= MIN_KEYWORD_INTEREST /\ GetCompetition(t) # "high"

RECURSIVE FilterTopics(_)
FilterTopics(ts) ==
    IF ts = <<>> THEN <<>>
    ELSE (IF PassesFilter(Head(ts)) THEN <<Head(ts)>> ELSE <<>>) \o FilterTopics(Tail(ts))

\* list.sort(key=interest, reverse=True): stable, equal interests keep their order
RECURSIVE InsertByInterest(_, _)
InsertByInterest(sorted, t) ==
    IF sorted = <<>> THEN <<t>>
    ELSE IF Head(sorted).interest >= t.interest
        THEN <<Head(sorted)>> \o InsertByInterest(Tail(sorted), t)
        ELSE <<t>> \o sorted

\* mutant: the sort left out
SortByInterestDesc_Unsorted(ts) == ts

RECURSIVE SortByInterestDesc(_)
SortByInterestDesc(ts) ==
    IF ts = <<>> THEN <<>>
    ELSE InsertByInterest(SortByInterestDesc(SubSeq(ts, 1, Len(ts) - 1)), ts[Len(ts)])

MaxTopics == 10

\* the list `topics` of get_trending_topics before it is filtered
TrendCandidates(items, m, interests) ==
    LET found == GoogleTopics(items) \o get_pinterest_trends(m, interests)
    IN  IF found = <<>> THEN Evergreen ELSE found

\* get_trending_topics: the outcome of the call, with the candidate list it
\* filtered
get_trending_topics(pt, frame, m, interests) ==
    LET g == get_google_trends(QueriedKeywords, pt, frame) IN
    IF g.raised THEN [called |-> TRUE, raised |-> TRUE, candidates |-> <<>>]
    ELSE LET cands == TrendCandidates(g.value, m, interests) IN
         [called |-> TRUE, raised |-> FALSE, candidates |-> cands,
          value |-> Prefix(SortByInterestDesc(FilterTopics(cands)), MaxTopics)]

-----------------------------------------------------------------------------
(* The trend analyzer as a state machine *)

InitTrends ==
    /\ IdleProducts
    /\ IdleImages
    /\ IdleApp
    /\ IdleContent
    /\ IdleAssembly
    /\ IdlePublish
    /\ month \in 1..12
    /\ pytrends \in PytrendsModes
    /\ df \in (IF pytrends = "ok" THEN DataFrames ELSE {[kind |-> "None"]})
    /\ google_ret = NotCalled
    /\ topics_ret = NotCalled

CallGetGoogleTrends ==
    /\ google_ret' = get_google_trends(QueriedKeywords, pytrends, df)
    /\ UNCHANGED <<contentVars, month, pytrends, df, topics_ret, assemblyVars, publishVars, productVars, imageVars, appVars>>

CallGetTrendingTopics ==
    /\ \E interests \in [DOMAIN Seasonal(month) -> PinterestInterests] :
          topics_ret' = get_trending_topics(pytrends, df, month, interests)
    /\ UNCHANGED <<contentVars, month, pytrends, df, google_ret, assemblyVars, publishVars, productVars, imageVars, appVars>>

NextTrends ==
    \/ CallGetGoogleTrends
    \/ CallGetTrendingTopics

SpecTrends == InitTrends /\ [][NextTrends]_vars

-----------------------------------------------------------------------------
(* ProductDatabase *)

AMAZON_AFFILIATE_TAG == <<"h","e","l","e","n","b","e","a","u","t","y","s","h","-","2","0">>

\* the "skincare" list of ProductDatabase.products (name, id, category)
products_skincare ==
    << [name |-> <<"C","e","r","a","V","e"," ","F","o","a","m","i","n","g"," ","F","a","c","i","a","l"," ","C","l","e","a","n","s","e","r">>, id |-> <<"B","0","7","7","T","G","Q","Z","P","X">>, category |-> "cleanser"],
       [name |-> <<"T","h","e"," ","O","r","d","i","n","a","r","y"," ","N","i","a","c","i","n","a","m","i","d","e"," ","1","0","%"," ","+"," ","Z","i","n","c"," ","1","%">>, id |-> <<"B","0","6","X","H","W","8","T","Q","L">>, category |-> "serum"],
       [name |-> <<"N","e","u","t","r","o","g","e","n","a"," ","U","l","t","r","a"," ","S","h","e","e","r"," ","S","u","n","s","c","r","e","e","n"," ","S","P","F"," ","5","5">>, id |-> <<"B","0","0","2","J","A","Y","M","E","E">>, category |-> "sunscreen"],
       [name |-> <<"O","l","a","y"," ","R","e","g","e","n","e","r","i","s","t"," ","R","e","t","i","n","o","l"," ","2","4"," ","N","i","g","h","t"," ","M","o","i","s","t","u","r","i","z","e","r">>, id |-> <<"B","0","7","M","V","J","C","3","J","8">>, category |-> "moisturizer"],
       [name |-> <<"P","a","u","l","a","'","s"," ","C","h","o","i","c","e"," ","2","%"," ","B","H","A"," ","L","i","q","u","i","d"," ","E","x","f","o","l","i","a","n","t">>, id |-> <<"B","0","0","9","4","9","C","T","Q","Q">>, category |-> "exfoliant"],
       [name |-> <<"L","a"," ","R","o","c","h","e","-","P","o","s","a","y"," ","T","o","l","e","r","i","a","n","e"," ","C","a","r","i","n","g"," ","W","a","s","h">>, id |-> <<"B","0","1","N","7","T","7","J","K","J">>, category |-> "cleanser"],
       [name |-> <<"E","u","c","e","r","i","n"," ","D","a","i","l","y"," ","P","r","o","t","e","c","t","i","o","n"," ","F","a","c","e"," ","L","o","t","i","o","n"," ","S","P","F"," ","3","0">>, id |-> <<"B","0","0","1","E","T","7","6","E","E">>, category |-> "sunscreen"] >>

\* the "makeup" list.  The two non-ASCII characters of the fourth name are
\* kept as two uncased characters, named by their code points.
products_makeup ==
    << [name |-> <<"M","a","y","b","e","l","l","i","n","e"," ","F","i","t"," ","M","e"," ","M","a","t","t","e"," ","F","o","u","n","d","a","t","i","o","n">>, id |-> <<"B","0","7","C","2","Z","S","7","B","8">>, category |-> "foundation"],
       [name |-> <<"U","r","b","a","n"," ","D","e","c","a","y"," ","N","a","k","e","d"," ","E","y","e","s","h","a","d","o","w"," ","P","a","l","e","t","t","e">>, id |-> <<"B","0","0","4","Q","8","U","1","Z","A">>, category |-> "eyeshadow"],
       [name |-> <<"F","e","n","t","y"," ","B","e","a","u","t","y"," ","G","l","o","s","s"," ","B","o","m","b"," ","U","n","i","v","e","r","s","a","l"," ","L","i","p"," ","L","u","m","i","n","i","z","e","r">>, id |-> <<"B","0","7","5","B","Y","K","K","7","T">>, category |-> "lip_gloss"],
       [name |-> <<"L","'","O","r">> \o <<"U+221A", "U+00A9">> \o <<"a","l"," ","P","a","r","i","s"," ","V","o","l","u","m","i","n","o","u","s"," ","L","a","s","h"," ","P","a","r","a","d","i","s","e"," ","M","a","s","c","a","r","a">>,
        id |-> <<"B","0","6","Y","5","Z","T","Q","T","X">>, category |-> "mascara"],
       [name |-> <<"R","a","r","e"," ","B","e","a","u","t","y"," ","S","o","f","t"," ","P","i","n","c","h"," ","L","i","q","u","i","d"," ","B","l","u","s","h">>, id |-> <<"B","0","8","F","7","R","Q","9","Q","8">>, category |-> "blush"],
       [name |-> <<"C","h","a","r","l","o","t","t","e"," ","T","i","l","b","u","r","y"," ","P","i","l","l","o","w"," ","T","a","l","k"," ","L","i","p","s","t","i","c","k">>, id |-> <<"B","0","7","D","7","R","8","G","5","K">>, category |-> "lipstick"] >>

\* the "tools" list
products_tools ==
    << [name |-> <<"F","o","r","e","o"," ","L","u","n","a"," ","M","i","n","i"," ","3"," ","F","a","c","e"," ","C","l","e","a","n","s","i","n","g"," ","B","r","u","s","h">>, id |-> <<"B","0","7","V","Q","Z","R","8","D","K">>, category |-> "cleansing_tool"],
       [name |-> <<"R","e","v","l","o","n"," ","O","n","e","-","S","t","e","p"," ","H","a","i","r"," ","D","r","y","e","r"," ","a","n","d"," ","V","o","l","u","m","i","z","e","r">>, id |-> <<"B","0","1","L","S","U","Q","S","B","0">>, category |-> "hair_tool"],
       [name |-> <<"R","e","a","l"," ","T","e","c","h","n","i","q","u","e","s"," ","M","a","k","e","u","p"," ","B","r","u","s","h"," ","S","e","t">>, id |-> <<"B","0","0","4","T","S","F","8","R","6">>, category |-> "brushes"],
       [name |-> <<"J","a","d","e"," ","R","o","l","l","e","r"," ","a","n","d"," ","G","u","a"," ","S","h","a"," ","S","e","t">>, id |-> <<"B","0","7","L","9","Q","Z","X","R","3">>, category |-> "facial_tool"],
       [name |-> <<"C","o","n","a","i","r"," ","D","o","u","b","l","e","-","S","i","d","e","d"," ","L","i","g","h","t","e","d"," ","M","a","k","e","u","p"," ","M","i","r","r","o","r">>, id |-> <<"B","0","0","0","0","2","N","5","Z","1">>, category |-> "mirror"] >>

\* the products in the order `for _, products in self.products.items()`
\* visits them
ProductTable == products_skincare \o products_makeup \o products_tools

\* category_mapping.get(category, [])
category_mapping(category) ==
    CASE category = "cleanser" -> << <<"c","l","e","a","n","s","e","r">>, <<"c","l","e","a","n","s","i","n","g">>, <<"w","a","s","h">> >>
      [] category = "serum" -> << <<"s","e","r","u","m">>, <<"v","i","t","a","m","i","n"," ","c">>, <<"n","i","a","c","i","n","a","m","i","d","e">>, <<"r","e","t","i","n","o","l">> >>
      [] category = "moisturizer" -> << <<"m","o","i","s","t","u","r","i","z","e","r">>, <<"c","r","e","a","m">>, <<"h","y","d","r","a","t">> >>
      [] category = "sunscreen" -> << <<"s","u","n","s","c","r","e","e","n">>, <<"s","p","f">>, <<"s","u","n"," ","p","r","o","t","e","c","t","i","o","n">> >>
      [] category = "foundation" -> << <<"f","o","u","n","d","a","t","i","o","n">>, <<"b","a","s","e"," ","m","a","k","e","u","p">> >>
      [] category = "eyeshadow" -> << <<"e","y","e","s","h","a","d","o","w">>, <<"e","y","e"," ","m","a","k","e","u","p">>, <<"p","a","l","e","t","t","e">> >>
      [] category = "mascara" -> << <<"m","a","s","c","a","r","a">>, <<"l","a","s","h","e","s">> >>
      [] category = "lipstick" -> << <<"l","i","p","s","t","i","c","k">>, <<"l","i","p">> >>
      [] category = "tools" -> << <<"t","o","o","l">>, <<"b","r","u","s","h">>, <<"m","i","r","r","o","r">> >>
      [] OTHER -> <<>>

\* the two conditions under which the loop appends p to `relevant`
\* (kw is the lower-cased keyword)
IsRelevant(p, kw) ==
    \/ \E t \in Range(category_mapping(p.category)) : Contains(kw, t)
    \/ \E term \in Range(Split(kw)) : Contains(Lower(p.name), term)

\* the list `relevant` after the loop
RECURSIVE RelevantIn(_, _)
RelevantIn(ps, kw) ==
    IF ps = <<>> THEN <<>>
    ELSE (IF IsRelevant(Head(ps), kw) THEN <<Head(ps)>> ELSE <<>>) \o RelevantIn(Tail(ps), kw)

\* mutant: an empty `relevant` is left empty
RelevantOrSkincare_NoFallback(relevant) == relevant

\* if not relevant: relevant = self.products["skincare"]
RelevantOrSkincare(relevant) == IF relevant = <<>> THEN products_skincare ELSE relevant

\* the loop that keeps the first product of every id
RECURSIVE UniqueById(_, _)
UniqueById(ps, seen) ==
    IF ps = <<>> THEN <<>>
    ELSE IF Head(ps).id \in seen THEN UniqueById(Tail(ps), seen)
    ELSE <<Head(ps)>> \o UniqueById(Tail(ps), seen \cup {Head(ps).id})

\* random.sample(population, k) for 0 <= k <= len(population): every list of
\* k elements taken at pairwise different positions may be returned
random_sample(population, k) ==
    { [i \in 1..k |-> population[f[i]]] :
        f \in { g \in [1..k -> DOMAIN population] :
                  \A i, j \in 1..k : i # j => g[i] # g[j] } }

\* the list `unique` of find_relevant_products
UniqueRelevant(kw) ==
    UniqueById(RelevantOrSkincare(RelevantIn(ProductTable, Lower(kw))), {})

\* find_relevant_products: the set of outcomes the call may have.
\* random.sample raises ValueError for a negative sample size.
find_relevant_products(kw, n) ==
    LET unique == UniqueRelevant(kw)
        k == IF n < Len(unique) THEN n ELSE Len(unique)
    IN  IF k < 0 THEN {Raise}
        ELSE { Return(r) : r \in random_sample(unique, k) }

\* mutant: the link is built from base_url, without the tag parameter
create_affiliate_link_NoTag(product) ==
    [href |-> <<"h","t","t","p","s",":","/","/","w","w","w",".","a","m","a","z","o","n",".","c","o","m","/","d","p","/">> \o product.id, text |-> product.name]

\* the <a> element create_affiliate_link returns: its href and its text
create_affiliate_link(product) ==
    [href |-> <<"h","t","t","p","s",":","/","/","w","w","w",".","a","m","a","z","o","n",".","c","o","m","/","d","p","/">> \o product.id \o <<"/","?","t","a","g","=">> \o AMAZON_AFFILIATE_TAG,
     text |-> product.name]

-----------------------------------------------------------------------------
(* The product lookup as a state machine *)

\* the keywords looked up: no product matches the first two, the others
\* match by category term, by a word of the product name, or both
ProductKeywords ==
    { <<>>, <<"g","l","a","s","s"," ","s","k","i","n"," ","r","o","u","t","i","n","e">>, <<"R","e","t","i","n","o","l"," ","s","e","r","u","m">>, <<"l","i","p">>, <<"s","u","n","s","c","r","e","e","n"," ","w","a","s","h">>,
      <<"b","r","u","s","h"," ","m","i","r","r","o","r"," ","t","o","o","l">>, <<"S","P","F">>, <<"M","a","k","e","u","p">> }

\* greatest count asked for
MaxCount == 3

InitProducts ==
    /\ IdleTrends
    /\ IdleAssembly
    /\ IdlePublish
    /\ IdleImages
    /\ IdleApp
    /\ keyword \in ProductKeywords
    /\ title = <<>>
    /\ meta = <<>>
    /\ labels = <<>>
    /\ count \in -1..MaxCount
    /\ found_ret = NotCalled

CallFindRelevantProducts ==
    /\ found_ret' \in find_relevant_products(keyword, count)
    /\ UNCHANGED <<contentVars, trendVars, assemblyVars, publishVars, count, imageVars, appVars>>

SpecProducts == InitProducts /\ [][CallFindRelevantProducts]_vars

-----------------------------------------------------------------------------
(* ImageManager *)

\* _placeholders(query, count): bank[:count] of the three static images
\* (the query is part of the alt text only)
PlaceholderBank(query) ==
    << [url |-> <<"placeholder", 3762879>>, alt |-> query, photographer |-> "Pexels"],
       [url |-> <<"placeholder", 3993212>>, alt |-> query, photographer |-> "Pexels"],
       [url |-> <<"placeholder", 4041392>>, alt |-> query, photographer |-> "Pexels"] >>
_placeholders(query, n) == Prefix(PlaceholderBank(query), n)

\* key = f"{query}_{count}"
CacheKey(query, n) == query \o <<"_">> \o IntStr(n)

\* What the endpoint may do with a search request: the request raises
\* (timeout, connection error), the status is not 200, the body is not JSON
\* (resp.json() raises), or the body is JSON and lists some photos, of which
\* one may lack a field the loop reads (KeyError when the loop gets to it).
PexelsFailures == {"request_raises", "status_500", "malformed_json", "malformed_photo"}
\* numbers of photos a body lists, before the cut to per_page
PhotoCounts == {0, 2, 5}
\* position of the photo lacking a field; 0: every photo is well-formed
MalformedAt == {0, 2}
PexelsResponses ==
    [kind : {"request_raises", "status_500", "malformed_json"}]
        \cup [kind : {"photos"}, listed : PhotoCounts, malformed : MalformedAt]

\* the i-th photo of the answer to the request with serial number req: the
\* endpoint is free to list other photos for the same query next time
Photo(req, i) == [large |-> <<"photo", req, i>>, photographer |-> <<"photographer", req, i>>]

\* the photos listed by a well-formed body, at most per_page of them
PhotosListed(response, per_page, req) ==
    [i \in 1..(IF response.listed < per_page THEN response.listed ELSE per_page) |-> Photo(req, i)]

\* the dict built for one photo
ImageOf(query, photo) ==
    [url |-> photo.large, alt |-> query, photographer |-> photo.photographer]

\* the request of search_pexels_images, as the endpoint sees it
SearchRequest(query, n) ==
    [query |-> query \o <<" ","b","e","a","u","t","y"," ","s","k","i","n","c","a","r","e"," ","m","a","k","e","u","p">>, per_page |-> n + 2]

\* the try block: the list returned from inside it (then cached), a raise, or
\* falling out of the `if` with nothing returned
SearchTry(query, n, response, req) ==
    IF response.kind \in {"request_raises", "malformed_json"} THEN Raise
    ELSE IF response.kind = "status_500" THEN NotCalled
    ELSE LET photos == Prefix(PhotosListed(response, n + 2, req), n)
         IN  IF response.malformed \in DOMAIN photos THEN Raise
             ELSE Return([i \in DOMAIN photos |-> ImageOf(query, photos[i])])

\* how the answer to a request sent for n images ended: "photos" when the
\* loop built the whole list
AnswerKind(n, response) ==
    IF response.kind # "photos" THEN response.kind
    ELSE IF response.malformed \in 1..n /\ response.malformed <= response.listed
        THEN "malformed_photo"
    ELSE "photos"

\* mutant: the except clause is left out, the failure propagates
search_pexels_images_NoExcept(has_key, memo, query, n, response, req) ==
    IF ~has_key THEN [ret |-> Return(_placeholders(query, n)), sent |-> <<>>, cache |-> memo]
    ELSE IF CacheKey(query, n) \in DOMAIN memo
        THEN [ret |-> Return(memo[CacheKey(query, n)]), sent |-> <<>>, cache |-> memo]
    ELSE LET r == SearchTry(query, n, response, req) IN
         IF r.called /\ r.raised
            THEN [ret |-> Raise, sent |-> <<SearchRequest(query, n)>>, cache |-> memo]
         ELSE IF r.called
            THEN [ret |-> r, sent |-> <<SearchRequest(query, n)>>,
                  cache |-> [k \in DOMAIN memo \cup {CacheKey(query, n)} |->
                                IF k = CacheKey(query, n) THEN r.value ELSE memo[k]]]
         ELSE [ret |-> Return(_placeholders(query, n)),
               sent |-> <<SearchRequest(query, n)>>, cache |-> memo]

\* search_pexels_images on an ImageManager whose cache is memo: the outcome,
\* the requests sent and the cache afterwards.  req is the serial number the
\* request gets if one is sent.
search_pexels_images(has_key, memo, query, n, response, req) ==
    IF ~has_key THEN [ret |-> Return(_placeholders(query, n)), sent |-> <<>>, cache |-> memo]
    ELSE IF CacheKey(query, n) \in DOMAIN memo
        THEN [ret |-> Return(memo[CacheKey(query, n)]), sent |-> <<>>, cache |-> memo]
    ELSE LET r == SearchTry(query, n, response, req) IN
         IF r.called /\ ~r.raised
            THEN [ret |-> r, sent |-> <<SearchRequest(query, n)>>,
                  cache |-> [k \in DOMAIN memo \cup {CacheKey(query, n)} |->
                                IF k = CacheKey(query, n) THEN r.value ELSE memo[k]]]
            ELSE [ret |-> Return(_placeholders(query, n)),
                  sent |-> <<SearchRequest(query, n)>>, cache |-> memo]

-----------------------------------------------------------------------------
(* The image manager as a state machine *)

\* the queries searched for
ImageQueries == { <<"g","l","a","s","s"," ","s","k","i","n"," ","r","o","u","t","i","n","e">>, <<"l","i","p","_","1">> }
\* the counts asked for by a direct caller
ImageCounts == {0, 1, 3}
\* the count the generate action asks for
GenerateImageCount == 3
\* most searches in a run
MaxSearches == 2

\* the effect of one search on the state; fresh: the search is made on an
\* ImageManager constructed for it, as `gen = ContentGenerator(cfg)` does in
\* the generate action
Search(fresh, query, n, response) ==
    LET r == search_pexels_images(pexels_key, IF fresh THEN <<>> ELSE cache,
                                  query, n, response, Len(pexels_log) + 1)
    IN  /\ cache' = r.cache
        /\ pexels_log' = pexels_log \o r.sent
        /\ search_log' = Append(search_log,
                                [query |-> query, count |-> n, generate |-> fresh,
                                 requests |-> Len(r.sent),
                                 answer |-> IF r.sent = <<>> THEN "none" ELSE AnswerKind(n, response),
                                 ret |-> r.ret])

\* a caller holding an ImageManager searches again on the same instance
CallSearchPexelsImages ==
    /\ Len(search_log) < MaxSearches
    /\ \E query \in ImageQueries, n \in ImageCounts, response \in PexelsResponses :
          Search(FALSE, query, n, response)
    /\ UNCHANGED <<contentVars, trendVars, assemblyVars, publishVars, productVars, pexels_key, appVars>>

-----------------------------------------------------------------------------
(* ContentGenerator.create_structured_content *)

\* _img_block(img): the <figure> element, or nothing for a falsy img
_img_block(img) == IF img = <<>> THEN <<>> ELSE << [figure |-> img] >>

\* create_affiliate_link(products[i]) if len(products) > i else ""
\* (i counted from 0 as in the code)
ProductLink(prods, i) ==
    IF Len(prods) > i THEN << create_affiliate_link(prods[i + 1]) >> ELSE <<>>

\* mutant: the step-by-step block needs more than two images
HasStepBlock_MoreThanTwo(imgs) == Len(imgs) > 2

\* the condition `len(images) > 1` guarding the step-by-step block
HasStepBlock(imgs) == Len(imgs) > 1

NumIntroTemplates == 4
NumConclusionTemplates == 4

\* The sections create_structured_content joins, in order.  A section is
\* modelled by what it is built from: its <h2>/<h3> headings, the affiliate
\* links and the figures embedded in it, and for the first and last section
\* the intro and conclusion template chosen.  The fixed prose of the
\* paragraphs is left out (the non-ASCII marks opening the three "Mistake"
\* headings too).
create_structured_content(kw, prods, imgs, intro, conclusion) ==
    << [block |-> "intro",
        headings |-> <<>>,
        links |-> <<>>,
        figures |-> IF imgs # <<>> THEN _img_block(imgs[1]) ELSE <<>>,
        intro |-> intro] >>
    \o << [block |-> "what_is",
           headings |-> << <<"W","h","a","t"," ","i","s"," ">> \o Title(kw) \o <<"?">> >>,
           links |-> ProductLink(prods, 0),
           figures |-> <<>>] >>
    \o (IF HasStepBlock(imgs)
        THEN << [block |-> "step_by_step",
                 headings |-> << <<"S","t","e","p","-","b","y","-","S","t","e","p"," ">> \o Title(kw) \o <<" ","G","u","i","d","e">>,
                                 <<"S","t","e","p"," ","1",":"," ","P","r","e","p","a","r","a","t","i","o","n"," ","i","s"," ","E","v","e","r","y","t","h","i","n","g">>,
                                 <<"S","t","e","p"," ","2",":"," ","A","p","p","l","y"," ","Y","o","u","r"," ","K","e","y"," ","P","r","o","d","u","c","t","s">>,
                                 <<"S","t","e","p"," ","3",":"," ","L","o","c","k"," ","E","v","e","r","y","t","h","i","n","g"," ","I","n">> >>,
                 links |-> ProductLink(prods, 1),
                 figures |-> _img_block(imgs[2])] >>
        ELSE <<>>)
    \o << [block |-> "mistakes",
           headings |-> << <<"C","o","m","m","o","n"," ">> \o Title(kw) \o <<" ","M","i","s","t","a","k","e","s"," ","t","o"," ","A","v","o","i","d">>,
                           <<" ","M","i","s","t","a","k","e"," ","#","1",":"," ","U","s","i","n","g"," ","T","o","o"," ","M","u","c","h"," ","P","r","o","d","u","c","t">>,
                           <<" ","M","i","s","t","a","k","e"," ","#","2",":"," ","B","e","i","n","g"," ","I","n","c","o","n","s","i","s","t","e","n","t">>,
                           <<" ","M","i","s","t","a","k","e"," ","#","3",":"," ","W","r","o","n","g"," ","P","r","o","d","u","c","t"," ","S","e","l","e","c","t","i","o","n">> >>,
           links |-> ProductLink(prods, 2),
           figures |-> <<>>] >>
    \o << [block |-> "tips_faq",
           headings |-> << <<"T","o","p"," ","T","i","p","s"," ","f","o","r"," ">> \o Title(kw),
                           <<"F","A","Q">>,
                           <<"H","o","w"," ","o","f","t","e","n"," ","s","h","o","u","l","d"," ","I"," ","d","o"," ","t","h","i","s"," ","r","o","u","t","i","n","e","?">> >>,
           links |-> <<>>,
           figures |-> <<>>,
           conclusion |-> conclusion] >>

-----------------------------------------------------------------------------
(* The section assembler as a state machine *)

\* the topics handed to the assembler
AssemblyTopics == { <<>>, <<"g","l","a","s","s"," ","s","k","i","n"," ","r","o","u","t","i","n","e">>, <<"B","e","a","u","t","y">>, <<"m","y"," ","S","k","i","n","c","a","r","e">> }

\* products are drawn from the first PoolSize products of the table
PoolSize == 3
MaxProducts == 3
MaxImages == 3

ProductPool == Range(Prefix(products_skincare, PoolSize))

\* lists of distinct products, as find_relevant_products returns them
ProductLists ==
    { ps \in UNION {[1..n -> ProductPool] : n \in 0..MaxProducts} :
        \A i, j \in DOMAIN ps : i # j => ps[i] # ps[j] }

\* the i-th image of a search result
Image(i) == [url |-> <<"photo", i>>, photographer |-> "Pexels"]
ImageLists == { [i \in 1..n |-> Image(i)] : n \in 0..MaxImages }

InitAssembly ==
    /\ IdleProducts
    /\ IdleImages
    /\ IdleApp
    /\ IdleTrends
    /\ IdlePublish
    /\ keyword \in AssemblyTopics
    /\ title = <<>>
    /\ meta = <<>>
    /\ labels = <<>>
    /\ products \in ProductLists
    /\ images \in ImageLists
    /\ html_ret = NotCalled

CallCreateStructuredContent ==
    /\ \E intro \in 1..NumIntroTemplates, conclusion \in 1..NumConclusionTemplates :
          html_ret' = Return(create_structured_content(keyword, products, images, intro, conclusion))
    /\ UNCHANGED <<contentVars, trendVars, products, images, publishVars, productVars, imageVars, appVars>>

SpecAssembly == InitAssembly /\ [][CallCreateStructuredContent]_vars

-----------------------------------------------------------------------------
(* BloggerPublisher *)

\* BloggerPublisher.__init__: self.enabled
PublisherEnabled(apis, blog) == apis /\ blog # ""

\* What happens to one publish attempt once the publisher is enabled:
\* build() raises before any request is sent, or the insert request is sent
\* and the endpoint answers it with a failure status (execute() raises) or by
\* creating the post.  The endpoint creates a post exactly when it answers
\* with success.
EndpointOutcomes == {"build_raises", "http_error", "created"}

\* the answer of the endpoint to an insert request: the post it created gets
\* the next identifier, and a URL made from it
EndpointAnswer(outcome, body, log) ==
    IF outcome = "created"
        THEN [body |-> body, status |-> 200,
              post |-> [id |-> Len(log) + 1, url |-> <<"post", Len(log) + 1>>]]
        ELSE [body |-> body, status |-> 403]

\* the try block of publish: build(...) is called, then the requests sent and
\* the outcome
PublishTry(outcome, body, log) ==
    IF outcome = "build_raises" THEN [built |-> TRUE, sent |-> <<>>, ret |-> Raise]
    ELSE LET answer == EndpointAnswer(outcome, body, log) IN
         [built |-> TRUE, sent |-> <<answer>>,
          ret |-> IF answer.status = 200
                    THEN Return([id |-> answer.post.id, url |-> answer.post.url])
                    ELSE Raise]

\* mutant: the except clause logs the failure and does not re-raise
publish_LogOnly(enabled, outcome, body, log) ==
    IF ~enabled THEN [built |-> FALSE, sent |-> <<>>, ret |-> Raise]
    ELSE LET r == PublishTry(outcome, body, log) IN
         IF r.ret.raised THEN [built |-> r.built, sent |-> r.sent, ret |-> Return("None")] ELSE r

\* mutant: a failed insert is sent once more
publish_Retry(enabled, outcome, body, log) ==
    IF ~enabled THEN [built |-> FALSE, sent |-> <<>>, ret |-> Raise]
    ELSE LET r == PublishTry(outcome, body, log) IN
         IF r.ret.raised /\ r.sent # <<>>
            THEN LET again == PublishTry(outcome, body, log \o r.sent) IN
                 [built |-> TRUE, sent |-> r.sent \o again.sent, ret |-> again.ret]
            ELSE r

\* mutant: publish does not look at self.enabled
publish_NoEnabledCheck(enabled, outcome, body, log) == PublishTry(outcome, body, log)

\* publish: the insert requests it sends and its outcome.  The except clause
\* logs and re-raises, so the outcome of the try block is the outcome of the
\* call.
publish(enabled, outcome, body, log) ==
    IF ~enabled THEN [built |-> FALSE, sent |-> <<>>, ret |-> Raise]
    ELSE PublishTry(outcome, body, log)

-----------------------------------------------------------------------------
(* The publisher as a state machine *)

\* most publish invocations in a run
MaxPublishes == 3

\* the posts handed to publish (title, content and labels taken as a whole)
Bodies == {"post A", "post B"}

InitPublish ==
    /\ IdleProducts
    /\ IdleImages
    /\ IdleApp
    /\ IdleContent
    /\ IdleTrends
    /\ IdleAssembly
    /\ google_apis \in BOOLEAN
    /\ blog_id \in {"", "1234567890"}
    /\ endpoint_log = <<>>
    /\ publish_log = <<>>

CallPublish ==
    /\ Len(publish_log) < MaxPublishes
    /\ \E body \in Bodies, outcome \in EndpointOutcomes :
          LET r == publish(PublisherEnabled(google_apis, blog_id), outcome, body, endpoint_log) IN
          /\ endpoint_log' = endpoint_log \o r.sent
          /\ publish_log' = Append(publish_log,
                                   [body |-> body, outcome |-> outcome, built |-> r.built,
                                    requests |-> Len(r.sent), ret |-> r.ret])
    /\ UNCHANGED <<contentVars, trendVars, assemblyVars, google_apis, blog_id, productVars, imageVars, appVars>>

SpecPublish == InitPublish /\ [][CallPublish]_vars

-----------------------------------------------------------------------------
(* run_streamlit_app: the generate action *)

\* The `random` generator is a stream of numbers fixed by its state.  A run
\* of the handler that starts in generator state s gets, at its k-th draw
\* below n, the value Draw(s, k, n); over the states 0..MaxSeed every draw
\* takes each of its values.
MaxSeed == 6
Seeds == 0..MaxSeed
Draw(s, k, n) == (s + k) % n

\* the draws one run of the handler makes: three for random.sample, two for
\* the title, one for the meta description, two for the body
NumDraws == 8

RemoveAt(s, i) == SubSeq(s, 1, i - 1) \o SubSeq(s, i + 1, Len(s))

\* random.sample(population, k), its elements taken by the draws d, d + 1, ...
RECURSIVE SampleByDraws(_, _, _, _)
SampleByDraws(population, k, s, d) ==
    IF k = 0 THEN <<>>
    ELSE LET i == Draw(s, d, Len(population)) + 1 IN
         <<population[i]>> \o SampleByDraws(RemoveAt(population, i), k - 1, s, d + 1)

\* the count the generate action hands to find_relevant_products
GenerateProductCount == 3

\* products = gen.product_db.find_relevant_products(keyword, count=3)
GenerateProducts(kw, s) ==
    LET unique == UniqueRelevant(kw)
        k == IF GenerateProductCount < Len(unique) THEN GenerateProductCount ELSE Len(unique)
    IN  SampleByDraws(unique, k, s, 1)

\* title, meta, labels and html of the handler, from the topic in the text
\* input, the products and images found, the clock and the generator state
GenerateContent(kw, prods, imgs, y, s) ==
    [title |-> SeoTitle(kw, y, Draw(s, 4, Len(TitleTemplates(kw, y))) + 1,
                               Draw(s, 5, Len(ShortTitleTemplates(kw))) + 1),
     meta |-> MetaDescription(kw, Draw(s, 6, Len(MetaTemplates(kw))) + 1),
     labels |-> generate_labels(kw),
     html |-> create_structured_content(kw, prods, imgs,
                                        Draw(s, 7, NumIntroTemplates) + 1,
                                        Draw(s, 8, NumConclusionTemplates) + 1)]

\* sep.join(words)
RECURSIVE JoinWith(_, _)
JoinWith(words, sep) ==
    IF words = <<>> THEN <<>>
    ELSE IF Len(words) = 1 THEN words[1]
    ELSE words[1] \o sep \o JoinWith(Tail(words), sep)

\* f"{title.replace(' ', '_')}.html"
FileName(t) == [i \in DOMAIN t |-> IF t[i] = " " THEN "_" ELSE t[i]] \o <<".","h","t","m","l">>

\* what the handler puts on the page once the content is generated, in
\* order (the fixed subheaders are left out)
Presented(c) ==
    << [op |-> "st.write", text |-> c.title],
       [op |-> "st.write", text |-> c.meta],
       [op |-> "st.write", text |-> JoinWith(c.labels, <<","," ">>)],
       [op |-> "st.components.v1.html", html |-> c.html],
       [op |-> "st.download_button", data |-> c.html, file_name |-> FileName(c.title)] >>

\* the post handed to publisher.publish(title, html, labels)
PostOf(c) == [title |-> c.title, content |-> c.html, labels |-> c.labels]

\* the `if publish_toggle:` block: the calls and page outputs it makes in
\* order, the requests it sends and the publish invocations it makes
PublishStep(toggle, apis, blog, outcome, body, log) ==
    IF ~toggle THEN [events |-> <<>>, sent |-> <<>>, calls |-> <<>>]
    ELSE IF ~apis \/ blog = ""
        THEN [events |-> << [op |-> "st.error", text |-> "Google APIs not available or BLOGGER_BLOG_ID not set."] >>,
              sent |-> <<>>, calls |-> <<>>]
    ELSE LET r == publish(PublisherEnabled(apis, blog), outcome, body, log) IN
         [events |-> << [op |-> "BloggerPublisher"],
                        [op |-> "publish", body |-> body, ret |-> r.ret] >>
                     \o (IF r.ret.raised
                            THEN << [op |-> "st.error", text |-> "Failed to publish"] >>
                            ELSE << [op |-> "st.success", id |-> r.ret.value.id],
                                    [op |-> "st.markdown", url |-> r.ret.value.url] >>),
          sent |-> r.sent,
          calls |-> << [body |-> body, outcome |-> outcome, built |-> r.built,
                        requests |-> Len(r.sent), ret |-> r.ret] >>]

\* mutant: the publish block runs before the content is put on the page
HandlerEvents_PublishFirst(c, p) == p.events \o Presented(c)

\* everything the handler does after generating the content, in order: the
\* page outputs, then the `if publish_toggle:` block
HandlerEvents(c, p) == Presented(c) \o p.events

\* the topics typed into the text input; "glass skin routine" is its default
GenerateTopics == { <<>>, <<" ">>, <<"g","l","a","s","s"," ","s","k","i","n"," ","r","o","u","t","i","n","e">>, <<"R","e","t","i","n","o","l"," ","s","e","r","u","m"," ">> }

\* One run of the script with the "Generate Blog Post" button pressed: the
\* `if generate_btn:` block.  An exception raised by a call ends the block
\* there.
RunGenerate ==
    /\ generate_btn
    /\ Len(search_log) < MaxSearches
    /\ Len(publish_log) < MaxPublishes
    /\ \E found \in {GenerateProducts(keyword, seed)} :
       \E response \in PexelsResponses :
       \E srch \in {search_pexels_images(pexels_key, <<>>, keyword, GenerateImageCount,
                                         response, Len(pexels_log) + 1)} :
          /\ count' = GenerateProductCount
          /\ found_ret' = Return(found)
          /\ products' = found
          /\ Search(TRUE, keyword, GenerateImageCount, response)
          /\ IF srch.ret.raised
                THEN /\ generate_ret' = Raise
                     /\ UNCHANGED <<title, meta, labels, images, html_ret,
                                    endpoint_log, publish_log, seed>>
                ELSE \E c \in {GenerateContent(keyword, found, srch.ret.value, now_year, seed)} :
                     \E outcome \in EndpointOutcomes :
                     \E p \in {PublishStep(publish_toggle, google_apis, blog_id,
                                           outcome, PostOf(c), endpoint_log)} :
                        /\ images' = srch.ret.value
                        /\ title' = c.title
                        /\ meta' = c.meta
                        /\ labels' = c.labels
                        /\ html_ret' = Return(c.html)
                        /\ endpoint_log' = endpoint_log \o p.sent
                        /\ publish_log' = publish_log \o p.calls
                        /\ generate_ret' = Return(HandlerEvents(c, p))
                        /\ seed' = (seed + NumDraws) % (MaxSeed + 1)
    /\ generate_btn' = FALSE
    /\ UNCHANGED <<keyword, trendVars, google_apis, blog_id, pexels_key, publish_toggle, now_year>>

\* the state in which the script runs after the button was pressed, for
\* every value of the widgets and of the configuration
InitGenerate ==
    /\ IdleTrends
    /\ IdleProducts
    /\ keyword \in GenerateTopics
    /\ title = <<>>
    /\ meta = <<>>
    /\ labels = <<>>
    /\ products = <<>>
    /\ images = <<>>
    /\ html_ret = NotCalled
    /\ google_apis \in BOOLEAN
    /\ blog_id \in {"", "1234567890"}
    /\ endpoint_log = <<>>
    /\ publish_log = <<>>
    /\ pexels_key \in BOOLEAN
    /\ cache = <<>>
    /\ pexels_log = <<>>
    /\ search_log = <<>>
    /\ publish_toggle \in BOOLEAN
    /\ generate_btn = TRUE
    /\ seed \in Seeds
    /\ now_year \in Years
    /\ generate_ret = NotCalled

SpecGenerate == InitGenerate /\ [][RunGenerate]_vars

\* The image manager used both ways: by generate actions of the UI (each a
\* run of the script after the button is pressed, with the topic in the text
\* input) and by callers of search_pexels_images on one ImageManager.
InitImages ==
    /\ IdleTrends
    /\ IdleProducts
    /\ IdleAssembly
    /\ IdlePublish
    /\ keyword \in ImageQueries
    /\ title = <<>>
    /\ meta = <<>>
    /\ labels = <<>>
    /\ pexels_key \in BOOLEAN
    /\ cache = <<>>
    /\ pexels_log = <<>>
    /\ search_log = <<>>
    /\ publish_toggle = FALSE
    /\ generate_btn = FALSE
    /\ seed = 0
    /\ now_year = 2026
    /\ generate_ret = NotCalled

\* the user presses "Generate Blog Post": the script runs again with
\* generate_btn set
PressGenerate ==
    /\ ~generate_btn
    /\ Len(search_log) < MaxSearches
    /\ generate_btn' = TRUE
    /\ UNCHANGED <<contentVars, trendVars, assemblyVars, publishVars, productVars, imageVars,
                   publish_toggle, seed, now_year, generate_ret>>

NextImages ==
    \/ CallSearchPexelsImages
    \/ PressGenerate
    \/ RunGenerate

SpecImages == InitImages /\ [][NextImages]_vars

\* The publisher used both ways: by the generate action of the UI (run once,
\* with the default topic) and by callers of BloggerPublisher.publish.
InitPublishUI ==
    /\ IdleTrends
    /\ IdleProducts
    /\ IdleAssembly
    /\ IdleImages
    /\ keyword = <<"g","l","a","s","s"," ","s","k","i","n"," ","r","o","u","t","i","n","e">>
    /\ title = <<>>
    /\ meta = <<>>
    /\ labels = <<>>
    /\ google_apis \in BOOLEAN
    /\ blog_id \in {"", "1234567890"}
    /\ endpoint_log = <<>>
    /\ publish_log = <<>>
    /\ publish_toggle \in BOOLEAN
    /\ generate_btn = TRUE
    /\ seed = 0
    /\ now_year = 2026
    /\ generate_ret = NotCalled

NextPublishUI ==
    \/ CallPublish
    \/ RunGenerate

SpecPublishUI == InitPublishUI /\ [][NextPublishUI]_vars

-----------------------------------------------------------------------------
(* Properties of the content functions *)

\* C1: for every topic, the title returned by generate_seo_title has at most
\* MAX_TITLE_LENGTH = 60 characters.
C1_TitleAtMostMaxLength ==
    title # <<>> => Len(title) <= MAX_TITLE_LENGTH

\* C2 as stated: for every topic, the meta description has between 150 and
\* 160 characters.
C2_MetaBetween150And160 ==
    meta # <<>> => (Len(meta) >= 150 /\ Len(meta) <= 160)

\* C2 amended: the meta description has at most META_DESC_LENGTH = 155
\* characters and is never padded: it is one of the sentences built from the
\* topic (a template of at most 155 characters, or else the fallback
\* sentence), whole when that sentence has at most 155 characters and cut to
\* its first 155 characters otherwise.
C2_MetaAtMost155Unpadded ==
    meta # <<>> =>
        /\ Len(meta) <= META_DESC_LENGTH
        /\ \E m \in Range(MetaTemplates(keyword)) \cup {MetaFallback(keyword)} :
              /\ (m # MetaFallback(keyword) => Len(m) <= META_DESC_LENGTH)
              /\ Len(meta) <= Len(m)
              /\ \A i \in DOMAIN meta : meta[i] = m[i]
              /\ (Len(meta) < Len(m) => Len(meta) = META_DESC_LENGTH)

\* C2 witness: a description that was cut: the fallback sentence is longer
\* than 155 characters and its first 155 characters were returned.
C2_Witness ==
    /\ meta # <<>>
    /\ Len(MetaFallback(keyword)) > META_DESC_LENGTH
    /\ Len(meta) = META_DESC_LENGTH

FirstIndex(s, e) == CHOOSE i \in DOMAIN s : s[i] = e /\ \A j \in 1..(i - 1) : s[j] # e
\* the number of distinct elements of s before the first occurrence of e
DistinctBefore(s, e) == Cardinality({s[j] : j \in 1..(FirstIndex(s, e) - 1)})

\* C3: the list returned by generate_labels has no duplicates and at most 8
\* entries; it holds exactly the first 8 distinct elements of base labels +
\* lower-cased topic words longer than two characters + topic-conditional
\* labels, in the order of their first occurrence.
C3_LabelsDistinctCappedFirstSeen ==
    labels # <<>> =>
        LET c == LabelCandidates(keyword) IN
        /\ \A i, j \in DOMAIN labels : i # j => labels[i] # labels[j]
        /\ Len(labels) <= 8
        /\ \A e \in Range(c) : (e \in Range(labels)) <=> (DistinctBefore(c, e) < 8)
        /\ Range(labels) \subseteq Range(c)
        /\ \A i, j \in DOMAIN labels : i < j => FirstIndex(c, labels[i]) < FirstIndex(c, labels[j])

\* C3 witness: a topic whose candidate list repeats a label and has more than
\* 8 distinct labels, so that both the deduplication and the cap acted.
C3_Witness ==
    /\ labels # <<>>
    /\ Len(labels) = 8
    /\ Cardinality(Range(LabelCandidates(keyword))) > 8
    /\ Cardinality(Range(LabelCandidates(keyword))) < Len(LabelCandidates(keyword))

\* the long and the shorter template instances of the topic
LongTitles(kw) == UNION { Range(TitleTemplates(kw, y)) : y \in Years }
ShortTitles(kw) == Range(ShortTitleTemplates(kw))

\* C16: generate_seo_title returns a title of the long template set only when
\* that title has at most 60 characters; otherwise (a long template instance
\* of the topic has more than 60 characters) it returns one of the shorter
\* template set.  Either way the result is a whole template instance and
\* contains the whole title-cased topic: it is never a cut string.
C16_WholeTemplateNeverTruncated ==
    title # <<>> =>
        LET long == LongTitles(keyword)
            short == ShortTitles(keyword)
            topic == Title(keyword)
        IN  /\ title \in long \cup short
            /\ title \in long => Len(title) <= MAX_TITLE_LENGTH
            /\ title \in short => \E t \in long : Len(t) > MAX_TITLE_LENGTH
            /\ Contains(title, topic)

\* C16 witness: a title of the shorter set was returned for a topic that has
\* long template instances on both sides of the limit.
C16_Witness ==
    /\ title # <<>>
    /\ title \in ShortTitles(keyword)
    /\ LET long == LongTitles(keyword)
       IN  /\ \E t \in long : Len(t) <= MAX_TITLE_LENGTH
           /\ \E t \in long : Len(t) > MAX_TITLE_LENGTH

-----------------------------------------------------------------------------
(* Properties of the trend analyzer *)

\* no external trend source is reachable: pytrends is missing, or
\* get_google_trends returned {}
NoTrendSource ==
    \/ pytrends = "absent"
    \/ (google_ret.called /\ ~google_ret.raised /\ google_ret.value = <<>>
        /\ get_google_trends(QueriedKeywords, pytrends, df) = google_ret)

EvergreenKeywords == {Evergreen[i].keyword : i \in DOMAIN Evergreen}

\* C4 as stated: with no external trend source reachable, get_trending_topics
\* returns a non-empty list without raising and its first topic is one of the
\* evergreen fallback topics, never the empty string.
C4_FirstTopicIsEvergreen ==
    (topics_ret.called /\ NoTrendSource) =>
        /\ ~topics_ret.raised
        /\ topics_ret.value # <<>>
        /\ topics_ret.value[1].keyword \in EvergreenKeywords
        /\ topics_ret.value[1].keyword # <<>>

\* C4 amended: with no external trend source reachable, get_trending_topics
\* returns a non-empty list without raising and its first topic is one of the
\* seasonal topics of the current month, never the empty string; the evergreen
\* fallback list is not used.
C4_FirstTopicIsSeasonal ==
    (topics_ret.called /\ NoTrendSource) =>
        /\ ~topics_ret.raised
        /\ topics_ret.value # <<>>
        /\ topics_ret.value[1].keyword \in Range(Seasonal(month))
        /\ topics_ret.value[1].keyword # <<>>
        /\ \A i \in DOMAIN topics_ret.value :
              topics_ret.value[i].keyword \notin EvergreenKeywords

\* C4 witness: get_trending_topics has returned with pytrends missing.
C4_Witness ==
    /\ topics_ret.called
    /\ pytrends = "absent"
    /\ ~topics_ret.raised
    /\ Len(topics_ret.value) >= 2

\* C5: every entry returned by get_trending_topics has an interest of at
\* least MIN_KEYWORD_INTEREST and a competition tag other than 'high'; the
\* list is in non-increasing order of interest, its first entry has the
\* greatest interest of all the candidates that pass the filter, and it has at
\* most 10 entries.
C5_FilteredSortedCapped ==
    (topics_ret.called /\ ~topics_ret.raised) =>
        LET r == topics_ret.value
            c == topics_ret.candidates
        IN  /\ \A i \in DOMAIN r :
                  /\ r[i].interest >= MIN_KEYWORD_INTEREST
                  /\ GetCompetition(r[i]) # "high"
                  /\ r[i] \in Range(c)
            /\ \A i, j \in DOMAIN r : i < j => r[i].interest >= r[j].interest
            /\ \A i \in DOMAIN c :
                  (c[i].interest >= MIN_KEYWORD_INTEREST /\ GetCompetition(c[i]) # "high")
                      => (r # <<>> /\ r[1].interest >= c[i].interest)
            /\ Len(r) <= 10

\* C5 witness: a Google Trends candidate over the threshold was dropped for
\* its competition tag, and the remaining candidates were put in another order.
C5_Witness ==
    /\ topics_ret.called
    /\ ~topics_ret.raised
    /\ \E i \in DOMAIN topics_ret.candidates :
          /\ "source" \in DOMAIN topics_ret.candidates[i]
          /\ topics_ret.candidates[i].source = "google_trends"
          /\ topics_ret.candidates[i] \notin Range(topics_ret.value)
    /\ \E i, j \in DOMAIN topics_ret.candidates :
          /\ i < j
          /\ topics_ret.candidates[i].interest < topics_ret.candidates[j].interest
          /\ topics_ret.candidates[i] \in Range(topics_ret.value)
          /\ topics_ret.candidates[j] \in Range(topics_ret.value)

IsGoogleTopic(t) == "source" \in DOMAIN t /\ t.source = "google_trends"

LookupFails ==
    \/ pytrends \in {"build_payload_raises", "interest_over_time_raises"}
    \/ /\ pytrends = "ok"
       /\ df.kind = "data"
       /\ \E k \in Range(QueriedKeywords) \cap DOMAIN df.cols : df.cols[k].nan

\* C6: a failure raised inside the trend lookup is caught in
\* get_google_trends, which returns the empty result; it propagates out of
\* neither get_google_trends nor get_trending_topics, which still returns the
\* candidates of the other source, the seasonal topics of the month.
C6_LookupFailureIsCaught ==
    LookupFails =>
        /\ google_ret.called => (~google_ret.raised /\ google_ret.value = <<>>)
        /\ topics_ret.called =>
              /\ ~topics_ret.raised
              /\ Len(topics_ret.value) = Len(Seasonal(month))
              /\ {topics_ret.value[i].keyword : i \in DOMAIN topics_ret.value}
                    = Range(Seasonal(month))

\* C6 witness: both functions were called while interest_over_time raises.
C6_Witness ==
    /\ pytrends = "interest_over_time_raises"
    /\ google_ret.called
    /\ topics_ret.called

-----------------------------------------------------------------------------
(* Properties of the product lookup *)

\* no product of the table matches the keyword
NoProductMatches(kw) == \A p \in Range(ProductTable) : ~IsRelevant(p, Lower(kw))

\* C18: for every keyword and every count >= 1, find_relevant_products
\* returns without raising a non-empty list of at most count products of the
\* fixed table, with pairwise distinct ids; when no product matches the
\* keyword, every product returned is of the skincare list.
C18_NonEmptyDistinctFromTable ==
    (found_ret.called /\ count >= 1) =>
        /\ ~found_ret.raised
        /\ LET r == found_ret.value IN
           /\ r # <<>>
           /\ Len(r) <= count
           /\ \A i \in DOMAIN r : r[i] \in Range(ProductTable)
           /\ \A i, j \in DOMAIN r : i # j => r[i].id # r[j].id
           /\ NoProductMatches(keyword) =>
                 \A i \in DOMAIN r : r[i] \in Range(products_skincare)

\* C18 witness: a keyword that matches no product was looked up with the
\* greatest count, and as many skincare products came back.
C18_Witness ==
    /\ found_ret.called
    /\ ~found_ret.raised
    /\ count = MaxCount
    /\ NoProductMatches(keyword)
    /\ keyword # <<>>
    /\ Len(found_ret.value) = count

-----------------------------------------------------------------------------
(* Properties of the image manager *)

\* the search sent a request and the list built from its answer was returned
SearchSucceeded(call) == call.requests = 1 /\ call.answer = "photos"

\* C13: search_pexels_images never raises to its caller; with no API key, on
\* a non-200 status, on malformed JSON and on any exception of the request
\* it returns the static placeholder images, and whatever happens the list
\* it returns has at most `count` images.
C13_NeverRaisesAtMostCount ==
    \A i \in DOMAIN search_log :
        LET call == search_log[i] IN
        /\ ~call.ret.raised
        /\ Len(call.ret.value) <= call.count
        /\ (~pexels_key \/ call.answer \in PexelsFailures) =>
              call.ret.value = _placeholders(call.query, call.count)
        /\ ~pexels_key => call.requests = 0

\* C13 witness: with an API key set, one search failed on malformed JSON and
\* another on a raising request, each asking for at least one image.
C13_Witness ==
    /\ pexels_key
    /\ \E i, j \in DOMAIN search_log :
          /\ search_log[i].answer = "malformed_json"
          /\ search_log[j].answer = "request_raises"
          /\ search_log[i].count >= 1
          /\ search_log[j].count >= 1

\* C14 as stated: once an image search for a (query, count) has succeeded,
\* every later generate action with the same query and count sends no search
\* request and gets the same image list.
C14_LaterGenerateServedFromCache ==
    \A i, j \in DOMAIN search_log :
        (/\ i < j
         /\ SearchSucceeded(search_log[i])
         /\ search_log[j].generate
         /\ search_log[j].query = search_log[i].query
         /\ search_log[j].count = search_log[i].count)
        => (search_log[j].requests = 0 /\ search_log[j].ret = search_log[i].ret)

-----------------------------------------------------------------------------
(* Properties of the generate action *)

\* the page outputs of a generate action, in the order the handler makes them
PresentedOps ==
    <<"st.write", "st.write", "st.write", "st.components.v1.html", "st.download_button">>

\* the first events of the action are the page outputs, and they show the
\* content the action left in title, meta, labels and html
ContentPresented(ev) ==
    /\ Len(ev) >= Len(PresentedOps)
    /\ \A i \in DOMAIN PresentedOps : ev[i].op = PresentedOps[i]
    /\ ev[1].text = title
    /\ ev[2].text = meta
    /\ ev[3].text = JoinWith(labels, <<","," ">>)
    /\ ev[4].html = html_ret.value
    /\ ev[5].data = html_ret.value

\* C11: in a generate action with publishing switched on, a failing publish
\* call ends the action with a reported error (st.error is the last thing the
\* handler does, and the handler does not raise); the publish call comes
\* after title, meta description, labels, preview and download have been put
\* on the page, it is handed that same content, and after the failure title,
\* meta, labels and html are still the values that were presented.
C11_PublishFailureKeepsPresentedContent ==
    (generate_ret.called /\ publish_toggle) =>
        /\ ~generate_ret.raised
        /\ LET ev == generate_ret.value IN
           \A k \in DOMAIN ev :
               ev[k].op = "publish" =>
                   /\ k > Len(PresentedOps)
                   /\ ContentPresented(ev)
                   /\ ev[k].body = [title |-> title, content |-> html_ret.value, labels |-> labels]
                   /\ ev[k].ret.raised =>
                         /\ k + 1 = Len(ev)
                         /\ ev[Len(ev)].op = "st.error"
                         /\ \A i \in DOMAIN ev : ev[i].op # "st.success"

\* C11 witness: the insert request of the action was sent and failed, and the
\* action ended with the error after presenting a non-empty body.
C11_Witness ==
    /\ generate_ret.called
    /\ ~generate_ret.raised
    /\ publish_toggle
    /\ Len(endpoint_log) = 1
    /\ endpoint_log[1].status # 200
    /\ generate_ret.value[Len(generate_ret.value)].op = "st.error"
    /\ Len(images) >= 2

\* the publishing configuration is incomplete
ConfigIncomplete == ~google_apis \/ blog_id = ""

\* C12: with an incomplete publishing configuration (Google API libraries
\* unavailable or BLOGGER_BLOG_ID empty) every publish invocation raises
\* without calling build() and without sending a request, and a generate
\* action with publishing switched on reports the error (st.error, as the
\* one thing it does after presenting the content) without constructing a
\* BloggerPublisher or calling publish.
C12_IncompleteConfigRefused ==
    ConfigIncomplete =>
        /\ \A i \in DOMAIN publish_log :
              /\ publish_log[i].ret.raised
              /\ ~publish_log[i].built
              /\ publish_log[i].requests = 0
        /\ endpoint_log = <<>>
        /\ (generate_ret.called /\ publish_toggle) =>
              /\ ~generate_ret.raised
              /\ LET ev == generate_ret.value IN
                 /\ Len(ev) = Len(PresentedOps) + 1
                 /\ ev[Len(ev)].op = "st.error"
                 /\ \A k \in DOMAIN ev : ev[k].op \notin {"BloggerPublisher", "publish"}

\* C12 witness: with the blog id missing, publish was invoked by a caller and
\* a generate action ran with publishing switched on.
C12_Witness ==
    /\ google_apis
    /\ blog_id = ""
    /\ publish_log # <<>>
    /\ generate_ret.called
    /\ publish_toggle

\* the supplied topic is empty after trimming
IsBlank(kw) == \A i \in DOMAIN kw : kw[i] = " "

\* the topics the selector knows: seasonal, queried trend and evergreen
SelectorTopics ==
    UNION { Range(Seasonal(m)) : m \in 1..12 } \cup Range(QueriedKeywords) \cup EvergreenKeywords

\* the results of the generate action are those of the pipeline run on topic t
DrivenBy(t) ==
    /\ found_ret \in find_relevant_products(t, GenerateProductCount)
    /\ search_log[Len(search_log)].query = t
    /\ title \in generate_seo_title(t, now_year)
    /\ meta \in generate_meta_description(t)
    /\ labels = generate_labels(t)
    /\ \E i \in 1..NumIntroTemplates, j \in 1..NumConclusionTemplates :
          html_ret.value = create_structured_content(t, products, images, i, j)

\* C15 as stated: a topic that is not empty after trimming drives product
\* lookup, image search, title, meta description, labels and body verbatim;
\* for an empty or whitespace-only topic the pipeline is driven by a topic of
\* the selector, and not by the empty string.
C15_BlankTopicReplacedBySelector ==
    (generate_ret.called /\ ~generate_ret.raised) =>
        IF ~IsBlank(keyword) THEN DrivenBy(keyword)
        ELSE /\ \E t \in SelectorTopics : DrivenBy(t)
             /\ ~DrivenBy(<<>>)

-----------------------------------------------------------------------------
(* Properties of the section assembler *)

Blocks(s) == [i \in DOMAIN s |-> s[i].block]

\* C7: create_structured_content emits its blocks in the fixed order intro
\* (with the hero image), 'What is', step-by-step, 'mistakes to avoid',
\* tips/FAQ (which ends with the closing paragraph); the step-by-step block is
\* there if and only if at least two images are supplied, every other block
\* for every input.
C7_BlocksInFixedOrder ==
    html_ret.called =>
        LET s == html_ret.value IN
        /\ Blocks(s) = IF Len(images) >= 2
                         THEN <<"intro", "what_is", "step_by_step", "mistakes", "tips_faq">>
                         ELSE <<"intro", "what_is", "mistakes", "tips_faq">>
        /\ images # <<>> => s[1].figures = << [figure |-> images[1]] >>
        /\ "conclusion" \in DOMAIN s[Len(s)]

\* C7 witness: the assembler was called with exactly two images and emitted
\* the step-by-step block.
C7_Witness ==
    /\ html_ret.called
    /\ Len(images) = 2
    /\ \E i \in DOMAIN html_ret.value : html_ret.value[i].block = "step_by_step"

\* an Amazon link to the product carrying tag=<AMAZON_AFFILIATE_TAG>
IsAffiliateLinkFor(link, product) ==
    /\ Contains(link.href, <<"a","m","a","z","o","n",".","c","o","m","/","d","p","/">> \o product.id)
    /\ Contains(link.href, <<"t","a","g","=">> \o AMAZON_AFFILIATE_TAG)

\* the number of affiliate-tagged links to the product in the sections
LinkCount(s, product) ==
    Cardinality({ x \in UNION { {<<i, j>> : j \in DOMAIN s[i].links} : i \in DOMAIN s } :
                    IsAffiliateLinkFor(s[x[1]].links[x[2]], product) })

AllHeadings(s) == UNION { Range(s[i].headings) : i \in DOMAIN s }

\* C8 as stated: for up to three products, the output holds exactly one
\* affiliate-tagged link for each product supplied, and the literal topic
\* string occurs in at least one heading.
C8_OneLinkPerProductTopicInHeading ==
    (html_ret.called /\ Len(products) <= 3) =>
        LET s == html_ret.value IN
        /\ \A i \in DOMAIN products : LinkCount(s, products[i]) = 1
        /\ \E h \in AllHeadings(s) : Contains(h, keyword)

\* C8 amended: the output holds exactly one affiliate-tagged link for the
\* first and for the third product supplied, and for the second product
\* exactly one when at least two images are supplied and none otherwise (a
\* product after the third gets none); the title-cased topic string
\* (keyword.title()), not the literal topic, occurs in a heading: in the <h2>
\* heading of every block after the intro.
C8_LinksPerProductTitleCasedHeading ==
    html_ret.called =>
        LET s == html_ret.value IN
        /\ \A i \in DOMAIN products :
              LinkCount(s, products[i]) =
                  IF i = 1 \/ i = 3 \/ (i = 2 /\ Len(images) >= 2) THEN 1 ELSE 0
        /\ \A i \in DOMAIN s :
              s[i].block # "intro" => Contains(s[i].headings[1], Title(keyword))

\* C8 witness: three products and one image were supplied, with a topic that
\* is not in title case and occurs in no heading.
C8_Witness ==
    /\ html_ret.called
    /\ Len(products) = 3
    /\ Len(images) = 1
    /\ keyword # Title(keyword)
    /\ \A h \in AllHeadings(html_ret.value) : ~Contains(h, keyword)

-----------------------------------------------------------------------------
(* Properties of the publisher *)

\* the number of insert requests sent by the first n publish invocations
RECURSIVE RequestsUpTo(_)
RequestsUpTo(n) == IF n = 0 THEN 0 ELSE RequestsUpTo(n - 1) + publish_log[n].requests

\* C9: publish returns the identifier and the URL of the endpoint's response
\* when the insert call succeeds; when the insert call fails the failure is
\* raised to the caller and no identifier is returned.
C9_PublishReturnsResponseOrRaises ==
    \A i \in DOMAIN publish_log :
        LET call == publish_log[i] IN
        IF PublisherEnabled(google_apis, blog_id) /\ call.outcome = "created"
            THEN /\ ~call.ret.raised
                 /\ call.requests = 1
                 /\ LET answer == endpoint_log[RequestsUpTo(i)] IN
                    /\ answer.status = 200
                    /\ answer.body = call.body
                    /\ call.ret.value = [id |-> answer.post.id, url |-> answer.post.url]
            ELSE /\ call.ret.raised
                 /\ "value" \notin DOMAIN call.ret

\* C9 witness: one invocation returned a post and a later one failed at the
\* endpoint.
C9_Witness ==
    \E i, j \in DOMAIN publish_log :
        /\ i < j
        /\ ~publish_log[i].ret.raised
        /\ publish_log[j].outcome = "http_error"
        /\ publish_log[j].requests = 1

SuccessfulCalls(bodies) ==
    { i \in DOMAIN publish_log : ~publish_log[i].ret.raised /\ publish_log[i].body \in bodies }
CreatedPosts(bodies) ==
    { j \in DOMAIN endpoint_log : endpoint_log[j].status = 200 /\ endpoint_log[j].body \in bodies }

\* C10: every publish invocation sends at most one insert request, whether it
\* succeeds or fails; the number of posts created at the endpoint is the
\* number of successful invocations, for each content too, so that publishing
\* the same content twice creates two posts.
C10_OneRequestOnePostPerSuccess ==
    /\ \A i \in DOMAIN publish_log : publish_log[i].requests <= 1
    /\ Len(endpoint_log) = RequestsUpTo(Len(publish_log))
    /\ Cardinality(CreatedPosts(Bodies)) = Cardinality(SuccessfulCalls(Bodies))
    /\ \A b \in Bodies : Cardinality(CreatedPosts({b})) = Cardinality(SuccessfulCalls({b}))
    /\ \A j, k \in CreatedPosts(Bodies) :
          j # k => endpoint_log[j].post.id # endpoint_log[k].post.id

\* C10 witness: the same content was published twice, giving two posts, and
\* an invocation failed at the endpoint after sending its one request.
C10_Witness ==
    /\ \E b \in Bodies : Cardinality(CreatedPosts({b})) = 2
    /\ \E i \in DOMAIN publish_log :
          publish_log[i].outcome = "http_error" /\ publish_log[i].requests = 1

=============================================================================
